---- MODULE Spec2Model ----
(***************************************************************************)
(* Dead letter queue over a key-value store (src/dead_letter.go).          *)
(*                                                                         *)
(* Every queue is ONE store key whose value is the JSON text of the whole  *)
(* message list: GetQueue reads and decodes it, SetQueue encodes and       *)
(* overwrites it.  Response bodies live in the same key space, under the   *)
(* message's Name and under Url+ReqMethod.  Each client call is a sequence *)
(* of store round trips; one action of the model is one round trip (or one *)
(* HTTP send) together with the local computation around it.               *)
(*                                                                         *)
(* A message is its Name, Url and ReqMethod.  PostParam and Headers only   *)
(* shape the request that is sent and pass through the queues untouched,   *)
(* so they are left out.                                                   *)
(***************************************************************************)
EXTENDS Integers, Sequences, FiniteSets, TLC

VARIABLES
    store,      \* the key-value store: key -> value
    th,         \* per client: program position and the locals of its call
    pre,        \* per client: the store as it was when the call / the send began
    lastBody,   \* history: name -> body of the latest response to a message of that name
    addLog,     \* history: messages added so far while nothing but AddMessage has run
    onlyAdds,   \* history: TRUE until a call other than AddMessage/GetQueue begins
    nAdded,     \* number of AddMessage calls begun
    nPasses,    \* number of ExecuteQueue/ExecuteDeadQueue calls begun
    env         \* fixed at construction: the client's configuration and its callers' inputs

vars == <<store, th, pre, lastBody, addLog, onlyAdds, nAdded, nPasses, env>>

-----------------------------------------------------------------------------
(* Bounds *)

MaxAdds == 2
MaxPasses == 2

-----------------------------------------------------------------------------
(* Configuration and inputs *)

queueName == "ReqQueue"

\* Client.deadHTTP, as configured
deadHTTP == env.deadHTTP

\* the clients that issue calls
clients == env.clients

\* the messages callers add
InputMsg == env.inputs

\* status codes the HTTP server answers with
StatusCodes == env.statuses

\* response bodies the HTTP server answers with (none of them a JSON array)
Bodies == env.bodies

\* how http.DefaultClient.Do can fail: no response at all, or a redirect
\* failure, which returns a response whose body is already closed
TransportErrors == env.transport

\* how a round trip to the store can end: "ok", or "fail" (no connection)
StoreOutcomes == env.store

RedirectStatus == 302

MsgA == [Name |-> "A", Url |-> "http://x/ok", ReqMethod |-> "GET"]
\* same Url as MsgA under another Name, which is also MsgA's Url+ReqMethod
MsgB == [Name |-> "http://x/okGET", Url |-> "http://x/ok", ReqMethod |-> "GET"]
\* a Name that is also the key of a dead letter queue
MsgC == [Name |-> "500", Url |-> "http://x/fail", ReqMethod |-> "POST"]

AllMsgs == {MsgA, MsgB, MsgC}

AllCodes == {429, 500}

Itoa(n) == ToString(n)

\* the keys of the dead letter queues
DeadKeys == {Itoa(deadHTTP[i]) : i \in 1..Len(deadHTTP)}

QueueKeys == {queueName} \cup DeadKeys

Names == {m.Name : m \in AllMsgs}

SuccessKey(m) == m.Url \o m.ReqMethod

\* every key the store is ever asked for
Keys == {queueName} \cup {Itoa(c) : c \in AllCodes} \cup Names
            \cup {SuccessKey(m) : m \in AllMsgs}

-----------------------------------------------------------------------------
(* Store values *)

\* an absent key
Nil == [kind |-> "nil", list |-> <<>>, str |-> ""]

\* a plain string value (a response body)
Str(s) == [kind |-> "str", list |-> <<>>, str |-> s]

\* json.Marshal of a message list
Marshal(msgs) == [kind |-> "json", list |-> msgs, str |-> ""]

\* json.Unmarshal into []InputMsg: fails, leaving the nil slice, on the
\* empty string and on any text that is not a JSON array
Unmarshal(val) == IF val.kind = "json" THEN val.list ELSE <<>>

\* GetQueue: redis GET, error ignored, then Unmarshal
GetQueue(s, qname) == Unmarshal(s[qname])

\* SetQueue: Marshal, then redis SET
SetQueue(s, queName, msg) == [s EXCEPT ![queName] = Marshal(msg)]

\* redis SET of a plain string
Set(s, key, val) == [s EXCEPT ![key] = Str(val)]

\* redis DEL
Del(s, key) == [s EXCEPT ![key] = Nil]

\* what a GET with outcome o gives GetQueue: a failed GET returns "" and its
\* error is not looked at, so every key reads as if it were absent
Seen(s, o) == IF o = "ok" THEN s ELSE [k \in DOMAIN s |-> Nil]

\* the error a SET or DEL with outcome o returns
StoreErr(o) == IF o = "ok" THEN "none" ELSE "store"

\* the store after a SET or DEL with outcome o that would have made it s2
Written(s, s2, o) == IF o = "ok" THEN s2 ELSE s

\* the slip of an earlier version: "for item := range slice" compares the
\* index, not the element
Find_Index(httpSlice, http) == http \in 0..(Len(httpSlice) - 1)

RECURSIVE Find(_, _)
Find(httpSlice, http) ==
    IF httpSlice = <<>> THEN FALSE
    ELSE IF Head(httpSlice) = http THEN TRUE
    ELSE Find(Tail(httpSlice), http)

\* a plausible slip: s[index:] for s[index+1:], which removes nothing
RemoveIndex_Keep(s, index) == SubSeq(s, 1, index) \o SubSeq(s, index + 1, Len(s))

\* s[index+1:] panics when index+1 > len(s)
RemoveIndexPanics(s, index) == index + 1 > Len(s)

\* append(s[:index], s[index+1:]...), index counted from 0
RemoveIndex(s, index) == SubSeq(s, 1, index) \o SubSeq(s, index + 2, Len(s))

\* a plausible slip: the test of the loop inverted
FilterQueue_Inverted(queue, msgName) ==
    SelectSeq(queue, LAMBDA value : value.Name = msgName)

\* the loop of DelMsg: keep the entries whose Name differs
RECURSIVE FilterQueue(_, _)
FilterQueue(queue, msgName) ==
    IF queue = <<>> THEN <<>>
    ELSE IF Head(queue).Name # msgName
         THEN <<Head(queue)>> \o FilterQueue(Tail(queue), msgName)
         ELSE FilterQueue(Tail(queue), msgName)

-----------------------------------------------------------------------------
(* Client state *)

NoMsg == [Name |-> "", Url |-> "", ReqMethod |-> ""]

NoRet == [val |-> Nil, err |-> "none"]

Idle == [pc |-> "idle", op |-> "none", qName |-> "", msgName |-> "", msg |-> NoMsg,
         queueData |-> <<>>, i |-> 0, d |-> 0, tmp |-> <<>>,
         status |-> 0, body |-> "", err |-> "", refiled |-> 0, failed |-> FALSE,
         ret |-> NoRet]

Ready(t) == t \in clients /\ th[t].pc = "idle"

\* the state after construction, over an empty store
Start ==
    /\ store = [k \in Keys |-> Nil]
    /\ th = [t \in clients |-> Idle]
    /\ pre = [t \in clients |-> [k \in Keys |-> Nil]]
    /\ lastBody = [n \in Names |-> Nil]
    /\ addLog = <<>>
    /\ onlyAdds = TRUE
    /\ nAdded = 0
    /\ nPasses = 0

Init ==
    /\ env = [deadHTTP |-> <<429, 500>>, clients |-> {1}, inputs |-> AllMsgs,
              statuses |-> {200, 429, 500}, bodies |-> {"done", "fail"},
              transport |-> {"nil_response"}, store |-> {"ok"}]
    /\ Start

\* the same client, with every way a send can fail at transport level
InitTransport ==
    /\ env = [deadHTTP |-> <<429, 500>>, clients |-> {1}, inputs |-> {MsgA, MsgB},
              statuses |-> {200, 429, 500}, bodies |-> {"done", "fail"},
              transport |-> {"nil_response", "redirect"}, store |-> {"ok"}]
    /\ Start

-----------------------------------------------------------------------------
(* Calls *)

\* a call begins: its locals are set and the store is remembered
Begin(t, call) ==
    /\ th' = [th EXCEPT ![t] = call]
    /\ pre' = [pre EXCEPT ![t] = store]

Mutating ==
    /\ onlyAdds' = FALSE
    /\ addLog' = <<>>

\* the call is over: its result is in th[t].ret
Done(t, ret) == th' = [th EXCEPT ![t].pc = "done", ![t].ret = ret]

NoStore == [k \in Keys |-> Nil]

\* the caller takes the result; the client is ready for the next call
Return(t) ==
    /\ t \in clients
    /\ th[t].pc = "done"
    /\ th' = [th EXCEPT ![t] = Idle]
    /\ pre' = [pre EXCEPT ![t] = NoStore]
    /\ UNCHANGED <<store, lastBody, addLog, onlyAdds, nAdded, nPasses, env>>

\* New: a fresh client after the previous one died
New(t) ==
    /\ t \in clients
    /\ th[t].pc = "panicked"
    /\ th' = [th EXCEPT ![t] = Idle]
    /\ pre' = [pre EXCEPT ![t] = NoStore]
    /\ UNCHANGED <<store, lastBody, addLog, onlyAdds, nAdded, nPasses, env>>

\* a plausible slip: the new message is put in front
QueueMsg_Prepend(s, message) == <<message>> \o GetQueue(s, queueName)

\* queueMsg := append(c.GetQueue(c.queueName), message)
QueueMsg(s, message) == Append(GetQueue(s, queueName), message)

\* AddMessage, first half: the read of the queue and the append
AddMessage(t, message) ==
    /\ Ready(t)
    /\ nAdded < MaxAdds
    /\ nAdded' = nAdded + 1
    /\ \E o \in StoreOutcomes :
          Begin(t, [Idle EXCEPT !.pc = "add_set", !.op = "AddMessage",
                                !.qName = queueName, !.msg = message,
                                !.failed = (o # "ok"),
                                !.tmp = QueueMsg(Seen(store, o), message)])
    /\ UNCHANGED <<store, lastBody, addLog, onlyAdds, nPasses, env>>

\* AddMessage, second half: return c.SetQueue(c.queueName, queueMsg)
AddMessageSet(t) ==
    /\ t \in clients
    /\ th[t].pc = "add_set"
    /\ \E o \in StoreOutcomes :
          /\ store' = Written(store, SetQueue(store, th[t].qName, th[t].tmp), o)
          /\ th' = [th EXCEPT ![t].pc = "done",
                              ![t].failed = th[t].failed \/ o # "ok",
                              ![t].ret = [val |-> Nil, err |-> StoreErr(o)]]
          /\ addLog' = IF onlyAdds /\ o = "ok" THEN Append(addLog, th[t].msg)
                       ELSE IF onlyAdds THEN addLog ELSE <<>>
    /\ UNCHANGED <<pre, lastBody, onlyAdds, nAdded, nPasses, env>>

\* ExecuteQueue: c.ExecuteQueueName(c.queueName)
ExecuteQueue(t) ==
    /\ Ready(t)
    /\ nPasses < MaxPasses
    /\ nPasses' = nPasses + 1
    /\ Begin(t, [Idle EXCEPT !.pc = "eqn", !.op = "ExecuteQueue", !.qName = queueName])
    /\ Mutating
    /\ UNCHANGED <<store, lastBody, nAdded, env>>

\* ExecuteDeadQueue: for _, deadQue := range c.deadHTTP
ExecuteDeadQueue(t) ==
    /\ Ready(t)
    /\ nPasses < MaxPasses
    /\ nPasses' = nPasses + 1
    /\ IF Len(deadHTTP) = 0
       THEN Begin(t, [Idle EXCEPT !.pc = "done", !.op = "ExecuteDeadQueue"])
       ELSE Begin(t, [Idle EXCEPT !.pc = "eqn", !.op = "ExecuteDeadQueue",
                                  !.d = 1, !.qName = Itoa(deadHTTP[1])])
    /\ Mutating
    /\ UNCHANGED <<store, lastBody, nAdded, env>>

\* a plausible slip: ExecuteDeadQueue returns after its first pass
AfterPass_Once(c) == [c EXCEPT !.pc = "done"]

\* a plausible slip: the pass is run again for as long as the queue it
\* executed holds entries
AfterPass_Again(c) ==
    IF GetQueue(store, c.qName) # <<>>
    THEN [c EXCEPT !.pc = "eqn"]
    ELSE [c EXCEPT !.pc = "done"]

\* where a client goes when the pass over th[t].qName is over
AfterPass(c) ==
    IF c.op = "ExecuteDeadQueue" /\ c.d < Len(deadHTTP)
    THEN [c EXCEPT !.pc = "eqn", !.d = c.d + 1, !.qName = Itoa(deadHTTP[c.d + 1])]
    ELSE [c EXCEPT !.pc = "done"]

\* ExecuteQueueName: queueData := c.GetQueue(qName), then the loop over it
ExecuteQueueName(t) ==
    /\ t \in clients
    /\ th[t].pc = "eqn"
    /\ LET queueData == GetQueue(store, th[t].qName)
           c == [th[t] EXCEPT !.queueData = queueData, !.i = 0, !.msg = NoMsg,
                              !.status = 0, !.body = "", !.err = "", !.refiled = 0]
       IN  th' = [th EXCEPT ![t] =
                    IF Len(queueData) > 0
                    THEN [c EXCEPT !.pc = "do", !.i = 1, !.msg = queueData[1]]
                    ELSE AfterPass(c)]
    /\ UNCHANGED <<store, pre, lastBody, addLog, onlyAdds, nAdded, nPasses, env>>

\* RawExecute up to the response: http.DefaultClient.Do(req), the deferred
\* res.Body.Close() and ioutil.ReadAll(res.Body)
RawExecute(t) ==
    /\ t \in clients
    /\ th[t].pc = "do"
    /\ pre' = [pre EXCEPT ![t] = store]
    /\ \/ \E status \in StatusCodes, body \in Bodies :
            /\ th' = [th EXCEPT ![t].pc = "resp", ![t].status = status,
                                ![t].body = body, ![t].err = ""]
            /\ lastBody' = [lastBody EXCEPT ![th[t].msg.Name] = Str(body)]
       \/ \E e \in TransportErrors :
            /\ th' = [th EXCEPT ![t] =
                        IF e = "nil_response"
                        \* res is nil: res.Body panics
                        THEN [th[t] EXCEPT !.pc = "panicked", !.err = e]
                        \* the body is closed: ReadAll fails, body is empty
                        ELSE [th[t] EXCEPT !.pc = "resp", !.status = RedirectStatus,
                                           !.body = "", !.err = e]]
            /\ UNCHANGED lastBody
    /\ UNCHANGED <<store, addLog, onlyAdds, nAdded, nPasses, env>>

\* MessageResponse: redis SET msgName response
MessageResponse(t) ==
    /\ t \in clients
    /\ th[t].pc = "resp"
    /\ store' = Set(store, th[t].msg.Name, th[t].body)
    /\ th' = [th EXCEPT ![t].pc = "hdq"]
    /\ UNCHANGED <<pre, lastBody, addLog, onlyAdds, nAdded, nPasses, env>>

\* newQueue := RemoveIndex(c.GetQueue(qName), 0)
ReadSource(c) ==
    LET queue == GetQueue(store, c.qName)
    IN  IF RemoveIndexPanics(queue, 0)
        THEN [c EXCEPT !.pc = "panicked"]
        ELSE [c EXCEPT !.pc = "src_set", !.tmp = RemoveIndex(queue, 0)]

\* qkey := strconv.Itoa(res.StatusCode)
Qkey(StatusCode) == Itoa(StatusCode)

\* deadMsg := append(c.GetQueue(qkey), msgParam)
DeadMsg(s, qkey, msgParam) == Append(GetQueue(s, qkey), msgParam)

\* HandleDeadQueue, up to its first read of the store: the dead letter queue
\* when Find(c.deadHTTP, res.StatusCode), else the source queue
HandleDeadQueue(t) ==
    /\ t \in clients
    /\ th[t].pc = "hdq"
    /\ th' = [th EXCEPT ![t] =
                IF Find(deadHTTP, th[t].status)
                THEN [th[t] EXCEPT !.pc = "dead_set",
                        !.tmp = DeadMsg(store, Qkey(th[t].status), th[t].msg)]
                ELSE ReadSource(th[t])]
    /\ UNCHANGED <<store, pre, lastBody, addLog, onlyAdds, nAdded, nPasses, env>>

\* HandleDeadQueue: err := c.SetQueue(qkey, deadMsg); the error is logged
\* and the function goes on
HandleDeadQueueSet(t) ==
    /\ t \in clients
    /\ th[t].pc = "dead_set"
    /\ \E o \in StoreOutcomes :
          /\ store' = Written(store, SetQueue(store, Qkey(th[t].status), th[t].tmp), o)
          /\ th' = [th EXCEPT ![t].pc = "src_get", ![t].tmp = <<>>,
                              ![t].failed = (o # "ok"),
                              \* history: the message went back into the queue it came from
                              ![t].refiled = IF o = "ok" /\ Qkey(th[t].status) = th[t].qName
                                             THEN th[t].refiled + 1 ELSE th[t].refiled]
    /\ UNCHANGED <<pre, lastBody, addLog, onlyAdds, nAdded, nPasses, env>>

\* HandleDeadQueue after a dead letter was filed: read the source queue
HandleDeadQueueGet(t) ==
    /\ t \in clients
    /\ th[t].pc = "src_get"
    /\ th' = [th EXCEPT ![t] = ReadSource(th[t])]
    /\ UNCHANGED <<store, pre, lastBody, addLog, onlyAdds, nAdded, nPasses, env>>

\* HandleDeadQueue: err := c.SetQueue(qName, newQueue); the error is logged
HandleDeadQueueDel(t) ==
    /\ t \in clients
    /\ th[t].pc = "src_set"
    /\ \E o \in StoreOutcomes :
          store' = Written(store, SetQueue(store, th[t].qName, th[t].tmp), o)
    /\ th' = [th EXCEPT ![t].pc = "succ", ![t].tmp = <<>>]
    /\ UNCHANGED <<pre, lastBody, addLog, onlyAdds, nAdded, nPasses, env>>

\* RawExecute, the end: redis SET successKey body, then the next message
RawExecuteSet(t) ==
    /\ t \in clients
    /\ th[t].pc = "succ"
    /\ store' = Set(store, SuccessKey(th[t].msg), th[t].body)
    /\ th' = [th EXCEPT ![t] =
                IF th[t].i < Len(th[t].queueData)
                THEN [th[t] EXCEPT !.pc = "do", !.i = th[t].i + 1,
                                   !.msg = th[t].queueData[th[t].i + 1],
                                   !.status = 0, !.body = "", !.err = ""]
                ELSE AfterPass(th[t])]
    /\ UNCHANGED <<pre, lastBody, addLog, onlyAdds, nAdded, nPasses, env>>

\* DeleteReqMsg: return c.DelMsg(c.queueName, msgName)
DeleteReqMsg(t, msgName) ==
    /\ Ready(t)
    /\ Begin(t, [Idle EXCEPT !.pc = "del_get", !.op = "DeleteReqMsg",
                             !.qName = queueName, !.msgName = msgName])
    /\ Mutating
    /\ UNCHANGED <<store, lastBody, nAdded, nPasses, env>>

\* DeleteDeadMsg: for _, value := range c.deadHTTP
DeleteDeadMsg(t, msgName) ==
    /\ Ready(t)
    /\ IF Len(deadHTTP) = 0
       THEN Begin(t, [Idle EXCEPT !.pc = "done", !.op = "DeleteDeadMsg",
                                  !.msgName = msgName])
       ELSE Begin(t, [Idle EXCEPT !.pc = "del_get", !.op = "DeleteDeadMsg", !.d = 1,
                                  !.qName = Itoa(deadHTTP[1]), !.msgName = msgName])
    /\ Mutating
    /\ UNCHANGED <<store, lastBody, nAdded, nPasses, env>>

\* a plausible slip: DeleteDeadMsg returns after its first queue
DeleteDeadMsgNext_Once(c) == FALSE

\* DeleteDeadMsg: the range loop has a next dead status code
DeleteDeadMsgNext(c) == c.op = "DeleteDeadMsg" /\ c.d < Len(deadHTTP)

\* DelMsg, first half: the loop over c.GetQueue(queName) that builds filterQueue
DelMsg(t) ==
    /\ t \in clients
    /\ th[t].pc = "del_get"
    /\ \E o \in StoreOutcomes :
          th' = [th EXCEPT ![t].pc = "del_set",
                           ![t].failed = th[t].failed \/ o # "ok",
                           ![t].tmp = FilterQueue(GetQueue(Seen(store, o), th[t].qName),
                                                  th[t].msgName)]
    /\ UNCHANGED <<store, pre, lastBody, addLog, onlyAdds, nAdded, nPasses, env>>

\* DelMsg, second half: return c.SetQueue(queName, filterQueue); on an error
\* DeleteDeadMsg returns it, else it goes on to its next queue
DelMsgSet(t) ==
    /\ t \in clients
    /\ th[t].pc = "del_set"
    /\ \E o \in StoreOutcomes :
          /\ store' = Written(store, SetQueue(store, th[t].qName, th[t].tmp), o)
          /\ th' = [th EXCEPT ![t] =
                      IF o = "ok" /\ DeleteDeadMsgNext(th[t])
                      THEN [th[t] EXCEPT !.pc = "del_get", !.d = th[t].d + 1, !.tmp = <<>>,
                                         !.qName = Itoa(deadHTTP[th[t].d + 1])]
                      ELSE [th[t] EXCEPT !.pc = "done", !.tmp = <<>>,
                                         !.failed = th[t].failed \/ o # "ok",
                                         !.ret = [val |-> Nil, err |-> StoreErr(o)]]]
    /\ UNCHANGED <<pre, lastBody, addLog, onlyAdds, nAdded, nPasses, env>>

\* ClearReqQueue: return c.ClearQueue(c.queueName)
ClearReqQueue(t) ==
    /\ Ready(t)
    /\ Begin(t, [Idle EXCEPT !.pc = "clr", !.op = "ClearReqQueue", !.qName = queueName])
    /\ Mutating
    /\ UNCHANGED <<store, lastBody, nAdded, nPasses, env>>

\* ClearDeadQueue: for _, value := range c.deadHTTP
ClearDeadQueue(t) ==
    /\ Ready(t)
    /\ IF Len(deadHTTP) = 0
       THEN Begin(t, [Idle EXCEPT !.pc = "done", !.op = "ClearDeadQueue"])
       ELSE Begin(t, [Idle EXCEPT !.pc = "clr", !.op = "ClearDeadQueue", !.d = 1,
                                  !.qName = Itoa(deadHTTP[1])])
    /\ Mutating
    /\ UNCHANGED <<store, lastBody, nAdded, nPasses, env>>

\* a plausible slip: a DEL that removed no key is reported as an error
ClearQueueErr_Strict(removed) == IF removed = 0 THEN "not found" ELSE "none"

\* ClearQueue: the error of a DEL that reached the store is nil, whatever the
\* number of keys DEL says it removed
ClearQueueErr(removed) == "none"

\* redis DEL replies with the number of keys it removed
DelReply(s, key) == IF s[key].kind = "nil" THEN 0 ELSE 1

\* ClearQueue: redis DEL qName, and the error it returns
ClearQueue(t) ==
    /\ t \in clients
    /\ th[t].pc = "clr"
    /\ \E o \in StoreOutcomes :
          /\ store' = Written(store, Del(store, th[t].qName), o)
          /\ th' = [th EXCEPT ![t] =
                      LET err == IF o = "ok" THEN ClearQueueErr(DelReply(store, th[t].qName))
                                 ELSE StoreErr(o)
                      IN  IF err = "none" /\ th[t].op = "ClearDeadQueue"
                                         /\ th[t].d < Len(deadHTTP)
                          THEN [th[t] EXCEPT !.d = th[t].d + 1,
                                             !.qName = Itoa(deadHTTP[th[t].d + 1])]
                          ELSE [th[t] EXCEPT !.pc = "done",
                                             !.failed = th[t].failed \/ o # "ok",
                                             !.ret = [val |-> Nil, err |-> err]]]
    /\ UNCHANGED <<pre, lastBody, addLog, onlyAdds, nAdded, nPasses, env>>

\* what redis GET returns: the value, or redis.Nil for an absent key
Get(s, key) ==
    IF s[key].kind = "nil" THEN [val |-> Str(""), err |-> "redis.Nil"]
    ELSE [val |-> s[key], err |-> "none"]

\* MessageStatus: val, err := c.redisCli.Get(c.ctx, msgName).Result()
MessageStatus(t, msgName) ==
    /\ Ready(t)
    /\ th' = [th EXCEPT ![t] = [Idle EXCEPT !.pc = "done", !.op = "MessageStatus", !.msgName = msgName,
                                            !.ret = Get(store, msgName)]]
    /\ UNCHANGED <<store, pre, lastBody, addLog, onlyAdds, nAdded, nPasses, env>>

-----------------------------------------------------------------------------

Next ==
    \E t \in clients :
        \/ New(t)
        \/ Return(t)
        \/ \E message \in InputMsg : AddMessage(t, message)
        \/ AddMessageSet(t)
        \/ ExecuteQueue(t)
        \/ ExecuteDeadQueue(t)
        \/ ExecuteQueueName(t)
        \/ RawExecute(t)
        \/ MessageResponse(t)
        \/ HandleDeadQueue(t)
        \/ HandleDeadQueueSet(t)
        \/ HandleDeadQueueGet(t)
        \/ HandleDeadQueueDel(t)
        \/ RawExecuteSet(t)
        \/ \E msgName \in Names : DeleteReqMsg(t, msgName)
        \/ \E msgName \in Names : DeleteDeadMsg(t, msgName)
        \/ DelMsg(t)
        \/ DelMsgSet(t)
        \/ ClearReqQueue(t)
        \/ ClearDeadQueue(t)
        \/ ClearQueue(t)
        \/ \E msgName \in Names : MessageStatus(t, msgName)

\* the client under each of several configured lists of dead status codes
DeadConfigs == {<<>>, <<500>>, <<429, 500>>, <<500, 429>>}

InitRouting ==
    /\ env \in {[deadHTTP |-> d, clients |-> {1}, inputs |-> {MsgA, MsgC},
                  statuses |-> {200, 429, 500}, bodies |-> {"done"},
                  transport |-> {"nil_response"}, store |-> {"ok"}] : d \in DeadConfigs}
    /\ Start

Spec == Init /\ [][Next]_vars

SpecRouting == InitRouting /\ [][Next]_vars

\* callers that add messages, run passes and ask for response records
NextPasses ==
    \E t \in clients :
        \/ New(t)
        \/ Return(t)
        \/ \E message \in InputMsg : AddMessage(t, message)
        \/ AddMessageSet(t)
        \/ ExecuteQueue(t)
        \/ ExecuteDeadQueue(t)
        \/ ExecuteQueueName(t)
        \/ RawExecute(t)
        \/ MessageResponse(t)
        \/ HandleDeadQueue(t)
        \/ HandleDeadQueueSet(t)
        \/ HandleDeadQueueGet(t)
        \/ HandleDeadQueueDel(t)
        \/ RawExecuteSet(t)
        \/ \E msgName \in Names : MessageStatus(t, msgName)

SpecPasses == Init /\ [][NextPasses]_vars

\* the same callers, with a server that also answers with an empty body
InitStatus ==
    /\ env = [deadHTTP |-> <<429, 500>>, clients |-> {1}, inputs |-> {MsgA},
              statuses |-> {200, 500}, bodies |-> {"", "done"},
              transport |-> {"nil_response"}, store |-> {"ok"}]
    /\ Start

SpecStatus == InitStatus /\ [][NextPasses]_vars

SpecTransport == InitTransport /\ [][Next]_vars

\* a client whose round trips to the store can fail
InitStore ==
    /\ env = [deadHTTP |-> <<429, 500>>, clients |-> {1}, inputs |-> {MsgA, MsgB},
              statuses |-> {200, 500}, bodies |-> {"done"},
              transport |-> {"nil_response"}, store |-> {"ok", "fail"}]
    /\ Start

\* callers of the operations that return an error: add, delete, clear
NextMutations ==
    \E t \in clients :
        \/ Return(t)
        \/ \E message \in InputMsg : AddMessage(t, message)
        \/ AddMessageSet(t)
        \/ \E msgName \in Names : DeleteReqMsg(t, msgName)
        \/ \E msgName \in Names : DeleteDeadMsg(t, msgName)
        \/ DelMsg(t)
        \/ DelMsgSet(t)
        \/ ClearReqQueue(t)
        \/ ClearDeadQueue(t)
        \/ ClearQueue(t)

SpecStore == InitStore /\ [][NextMutations]_vars

\* two clients (two processes, or two goroutines) over the same store
InitRace ==
    /\ env = [deadHTTP |-> <<500>>, clients |-> {1, 2}, inputs |-> {MsgA, MsgB},
              statuses |-> {200, 500}, bodies |-> {"done"},
              transport |-> {"nil_response"}, store |-> {"ok"}]
    /\ Start

\* callers that add messages and run passes over the request queue
NextRace ==
    \E t \in clients :
        \/ New(t)
        \/ Return(t)
        \/ \E message \in InputMsg : AddMessage(t, message)
        \/ AddMessageSet(t)
        \/ ExecuteQueue(t)
        \/ ExecuteQueueName(t)
        \/ RawExecute(t)
        \/ MessageResponse(t)
        \/ HandleDeadQueue(t)
        \/ HandleDeadQueueSet(t)
        \/ HandleDeadQueueGet(t)
        \/ HandleDeadQueueDel(t)
        \/ RawExecuteSet(t)

SpecRace == InitRace /\ [][NextRace]_vars

\* two clients over a store whose request queue already holds MsgA and MsgB
InitDelete ==
    /\ env = [deadHTTP |-> <<500>>, clients |-> {1, 2}, inputs |-> {MsgA, MsgB},
              statuses |-> {200, 500}, bodies |-> {"done"},
              transport |-> {"nil_response"}, store |-> {"ok"}]
    /\ store = SetQueue([k \in Keys |-> Nil], queueName, <<MsgA, MsgB>>)
    /\ th = [t \in clients |-> Idle]
    /\ pre = [t \in clients |-> NoStore]
    /\ lastBody = [n \in Names |-> Nil]
    /\ addLog = <<>>
    /\ onlyAdds = FALSE
    /\ nAdded = 2
    /\ nPasses = 0

\* callers that run passes over the request queue and delete from it; no
\* message is added
NextDelete ==
    \E t \in clients :
        \/ New(t)
        \/ Return(t)
        \/ ExecuteQueue(t)
        \/ ExecuteQueueName(t)
        \/ RawExecute(t)
        \/ MessageResponse(t)
        \/ HandleDeadQueue(t)
        \/ HandleDeadQueueSet(t)
        \/ HandleDeadQueueGet(t)
        \/ HandleDeadQueueDel(t)
        \/ RawExecuteSet(t)
        \/ \E msgName \in {m.Name : m \in InputMsg} : DeleteReqMsg(t, msgName)
        \/ DelMsg(t)
        \/ DelMsgSet(t)

SpecDelete == InitDelete /\ [][NextDelete]_vars

\* one client whose store can fail any write, running passes
InitDeadWrite ==
    /\ env = [deadHTTP |-> <<500>>, clients |-> {1}, inputs |-> {MsgA, MsgB},
              statuses |-> {200, 500}, bodies |-> {"done"},
              transport |-> {"nil_response"}, store |-> {"ok", "fail"}]
    /\ Start

SpecDeadWrite == InitDeadWrite /\ [][NextPasses]_vars

\* one step of the body of ExecuteQueueName for client t
PassStep(t) ==
    \/ ExecuteQueueName(t)
    \/ RawExecute(t)
    \/ MessageResponse(t)
    \/ HandleDeadQueue(t)
    \/ HandleDeadQueueSet(t)
    \/ HandleDeadQueueGet(t)
    \/ HandleDeadQueueDel(t)
    \/ RawExecuteSet(t)

\* the calls are synchronous: ExecuteQueue and ExecuteDeadQueue run on the
\* caller's goroutine, so a call under way takes its next step whenever the
\* send or the store call it waits for has returned
SpecTermination == Init /\ [][NextPasses]_vars /\ WF_vars(\E t \in clients : PassStep(t))

\* the same synchronous calls under each configured list of dead status codes
SpecResend == InitRouting /\ [][NextPasses]_vars /\ WF_vars(\E t \in clients : PassStep(t))

-----------------------------------------------------------------------------
(* The earliest variant *)

\* the earliest variant's redis SET of one message, not of a marshalled list
Raw(msgParam) == [kind |-> "msg", list |-> <<msgParam>>, str |-> ""]

\* the loop of the earliest Find: "for item := range slice" gives item the
\* indexes 0, 1, ... of slice, and item is what is compared with val
RECURSIVE EarliestFindFrom(_, _, _)
EarliestFindFrom(slice, val, item) ==
    IF item >= Len(slice) THEN FALSE
    ELSE IF item = val THEN TRUE
    ELSE EarliestFindFrom(slice, val, item + 1)

\* the earliest Find(slice, val)
EarliestFind(slice, val) == EarliestFindFrom(slice, val, 0)

\* the earliest RawExecute up to its call of HandleDeadQueue:
\* http.DefaultClient.Do(req) and the deferred res.Body.Close()
EarliestRawExecute(t) ==
    /\ t \in clients
    /\ th[t].pc = "do"
    /\ pre' = [pre EXCEPT ![t] = store]
    /\ \/ \E status \in StatusCodes, body \in Bodies :
            th' = [th EXCEPT ![t].pc = "hdq_e", ![t].status = status,
                             ![t].body = body, ![t].err = ""]
       \/ \E e \in TransportErrors :
            th' = [th EXCEPT ![t] =
                     IF e = "nil_response"
                     THEN [th[t] EXCEPT !.pc = "panicked", !.err = e]
                     ELSE [th[t] EXCEPT !.pc = "hdq_e", !.status = RedirectStatus,
                                        !.body = "", !.err = e]]
    /\ UNCHANGED <<store, lastBody, addLog, onlyAdds, nAdded, nPasses, env>>

\* the earliest HandleDeadQueue up to RemoveIndex: when Find says so, SET
\* strconv.Itoa(res.StatusCode) msgParam; then the queue is read and its
\* head is taken off
EarliestHandleDeadQueue(t) ==
    /\ t \in clients
    /\ th[t].pc = "hdq_e"
    /\ store' = IF EarliestFind(deadHTTP, th[t].status)
                THEN [store EXCEPT ![Itoa(th[t].status)] = Raw(th[t].msg)]
                ELSE store
    /\ th' = [th EXCEPT ![t] = ReadSource(th[t])]
    /\ UNCHANGED <<pre, lastBody, addLog, onlyAdds, nAdded, nPasses, env>>

\* callers of the earliest variant: AddMessage and ExecuteQueue
NextEarliest ==
    \E t \in clients :
        \/ New(t)
        \/ Return(t)
        \/ \E message \in InputMsg : AddMessage(t, message)
        \/ AddMessageSet(t)
        \/ ExecuteQueue(t)
        \/ ExecuteQueueName(t)
        \/ EarliestRawExecute(t)
        \/ EarliestHandleDeadQueue(t)
        \/ HandleDeadQueueDel(t)
        \/ RawExecuteSet(t)

SpecEarliest == InitRouting /\ [][NextEarliest]_vars

-----------------------------------------------------------------------------
(* Reading the state *)

\* the configured dead status codes, as a set
DeadSet == {deadHTTP[i] : i \in 1..Len(deadHTTP)}

\* how often message m occurs in queue q
Count(m, q) == Cardinality({i \in 1..Len(q) : q[i] = m})

\* no call is under way
Quiet == \A t \in clients : th[t].pc \in {"idle", "done"}

-----------------------------------------------------------------------------
(* C1 *)

\* C1: after AddMessage calls only, on the initially empty request queue,
\* GetQueue on the request queue key returns exactly the added messages, in
\* the order they were added.
C1_FifoPreservation ==
    (onlyAdds /\ Quiet) => GetQueue(store, queueName) = addLog

\* two different messages were added, one after the other
C1_Witness ==
    /\ onlyAdds /\ Quiet
    /\ Len(addLog) = 2 /\ addLog[1] # addLog[2]
    /\ GetQueue(store, queueName) = addLog

-----------------------------------------------------------------------------
(* C2 *)

\* HandleDeadQueue has returned for the message client t sent
Handled(t) == th[t].pc = "succ" /\ th[t].err = ""

\* C2: in a single-client ExecuteQueue pass, once a message answered with a
\* dead status d has been handled, it is gone from the head of the request
\* queue, the dead letter queue keyed str(d) is what it was at the send plus
\* that message at its tail, and no other queue holds more copies of it.
C2_DeadLetterFiled ==
    \A t \in clients :
        (Handled(t) /\ th[t].op = "ExecuteQueue" /\ th[t].status \in DeadSet) =>
            LET m == th[t].msg
                k == Itoa(th[t].status)
            IN  /\ <<m>> \o GetQueue(store, queueName) = GetQueue(pre[t], queueName)
                /\ GetQueue(store, k) = Append(GetQueue(pre[t], k), m)
                /\ \A q \in DeadKeys \ {k} :
                     Count(m, GetQueue(store, q)) <= Count(m, GetQueue(pre[t], q))

-----------------------------------------------------------------------------
(* C3 *)

\* what holds of store s once RawExecute has returned for message m of queue
\* k, answered with a status that is not dead and with this body, when p was
\* the store at the send
NotDeadPost(s, p, m, k, body) ==
    /\ Count(m, GetQueue(s, k)) = Count(m, GetQueue(p, k)) - 1
    /\ \A q \in QueueKeys \ {k} : Count(m, GetQueue(s, q)) <= Count(m, GetQueue(p, q))
    /\ (Count(m, GetQueue(p, k)) = 1 /\ \A q \in QueueKeys \ {k} : Count(m, GetQueue(p, q)) = 0)
          => \A q \in QueueKeys : Count(m, GetQueue(s, q)) = 0
    /\ Get(s, m.Name) = [val |-> Str(body), err |-> "none"]

\* C3: in a single-client pass over any queue, when RawExecute returns for a
\* message answered with a status that is not dead, the source queue has lost
\* one copy of the message, no queue has gained one (so a message that was
\* queued once is in no queue at all), and the record under its name is the
\* response body.
C3_NotDeadDropped ==
    [][\A t \in clients :
          (Handled(t) /\ th[t].status \notin DeadSet) =>
              NotDeadPost(store', pre[t], th[t].msg, th[t].qName, th[t].body)]_vars

\* a message of a dead letter queue was answered 200 and has been removed
C3_Witness ==
    \E t \in clients :
        /\ Handled(t) /\ th[t].status = 200
        /\ th[t].op = "ExecuteDeadQueue"
        /\ Count(th[t].msg, GetQueue(pre[t], th[t].qName)) = 1
        /\ \A q \in QueueKeys : Count(th[t].msg, GetQueue(store, q)) = 0
        /\ Get(store, th[t].msg.Name) = [val |-> Str(th[t].body), err |-> "none"]

-----------------------------------------------------------------------------
(* C4 *)

\* client t has handled the last message of its snapshot: the pass over
\* th[t].qName ends with its next step
PassEnds(t) == th[t].pc = "succ" /\ th[t].i = Len(th[t].queueData)

-----------------------------------------------------------------------------
(* C5 *)

\* the dead letter keys, other than the queue being read, that a step writes
DeadWritten(t) ==
    {k \in {Itoa(c) : c \in AllCodes \cup StatusCodes} \cap Keys : store'[k] # store[k]}
        \ {th[t].qName}

\* C5: HandleDeadQueue files the executed message under a dead letter key iff
\* the response status s is one of the configured dead codes; the key is then
\* str(s) and the message goes to the tail of that queue; for any other
\* status it writes no dead letter queue.
C5_Routing ==
    [][\A t \in clients :
          LET s == th[t].status
          IN  /\ th[t].pc = "hdq" =>
                    /\ (s \in DeadSet) <=> (th'[t].pc = "dead_set")
                    /\ store' = store
              /\ th[t].pc = "dead_set" =>
                    /\ s \in DeadSet
                    /\ store' = [store EXCEPT ![ToString(s)] =
                                    Marshal(Append(GetQueue(store, ToString(s)), th[t].msg))]
              /\ th[t].pc \in {"src_get", "src_set"} => DeadWritten(t) = {}]_vars

\* with 500 the only dead code: a message answered 500 is at the tail of
\* queue "500", behind an older entry, MsgA has its response on record and
\* nothing was filed under "429"
C5_Witness ==
    \E t \in clients :
        /\ deadHTTP = <<500>>
        /\ th[t].pc = "src_get" /\ th[t].status = 500
        /\ Len(GetQueue(store, "500")) = 2
        /\ GetQueue(store, "500")[2] = th[t].msg
        /\ Get(store, "A") = [val |-> Str("done"), err |-> "none"]
        /\ lastBody["A"] = Str("done")
        /\ GetQueue(store, "429") = <<>>

-----------------------------------------------------------------------------
(* C6 *)

\* the entries of queue whose Name is not msgName, in their order
Others(queue, msgName) == SelectSeq(queue, LAMBDA m : m.Name # msgName)

\* C6: the write that ends DelMsg(k, name), DeleteReqMsg included, leaves in
\* queue k exactly the entries whose Name is not name, entries with the same
\* Url among them, in the order they had.
C6_DeletionPrecision ==
    [][\A t \in clients :
          th[t].pc = "del_set" =>
              GetQueue(store', th[t].qName)
                  = Others(GetQueue(store, th[t].qName), th[t].msgName)]_vars

\* DeleteReqMsg("A") has returned: the request queue held MsgA and then MsgB,
\* which has MsgA's Url, and now holds MsgB alone
C6_Witness ==
    \E t \in clients :
        /\ th[t].pc = "done" /\ th[t].op = "DeleteReqMsg" /\ th[t].msgName = "A"
        /\ GetQueue(pre[t], queueName) = <<MsgA, MsgB>>
        /\ MsgA.Url = MsgB.Url
        /\ GetQueue(store, queueName) = <<MsgB>>

-----------------------------------------------------------------------------
(* C7 *)

\* C7: once DeleteDeadMsg(name) has returned without error, no dead letter
\* queue holds an entry of that name, every dead letter queue holds its other
\* entries in the order they had, and the request queue is what it was.
C7_DeleteDeadMsg ==
    \A t \in clients :
        (th[t].pc = "done" /\ th[t].op = "DeleteDeadMsg" /\ th[t].ret.err = "none") =>
            /\ \A k \in DeadKeys :
                 /\ \A i \in 1..Len(GetQueue(store, k)) :
                        GetQueue(store, k)[i].Name # th[t].msgName
                 /\ GetQueue(store, k) = Others(GetQueue(pre[t], k), th[t].msgName)
            /\ store[queueName] = pre[t][queueName]

\* DeleteDeadMsg("A") has returned: MsgA is gone from the first dead letter
\* queue and MsgB, which has MsgA's Url, is still in the second
C7_Witness ==
    \E t \in clients :
        /\ th[t].pc = "done" /\ th[t].op = "DeleteDeadMsg" /\ th[t].msgName = "A"
        /\ th[t].ret.err = "none"
        /\ GetQueue(pre[t], "429") = <<MsgA>>
        /\ GetQueue(pre[t], "500") = <<MsgB>>
        /\ GetQueue(store, "429") = <<>>
        /\ GetQueue(store, "500") = <<MsgB>>

-----------------------------------------------------------------------------
(* C8 *)

\* C8: once ClearReqQueue or ClearDeadQueue has returned, it returned no
\* error, also when a key it cleared was absent already, and GetQueue gives
\* the empty sequence for every queue it cleared.
C8_ClearIdempotent ==
    \A t \in clients :
        (th[t].pc = "done" /\ th[t].op \in {"ClearReqQueue", "ClearDeadQueue"}) =>
            /\ th[t].ret.err = "none"
            /\ th[t].op = "ClearReqQueue" => GetQueue(store, queueName) = <<>>
            /\ th[t].op = "ClearDeadQueue" =>
                   \A k \in DeadKeys : GetQueue(store, k) = <<>>

\* a second ClearReqQueue has returned without error: messages were added,
\* and the key was absent again when this call began
C8_Witness ==
    \E t \in clients :
        /\ th[t].pc = "done" /\ th[t].op = "ClearReqQueue"
        /\ nAdded > 0
        /\ pre[t][queueName] = Nil
        /\ th[t].ret.err = "none"
        /\ GetQueue(store, queueName) = <<>>

-----------------------------------------------------------------------------
(* C9 *)

\* C9 as claimed: after any sequence of adds and passes, MessageStatus(name)
\* returns, without error, the body of the latest response received for a
\* message of that name.
C9_LatestResponse ==
    \A t \in clients :
        (/\ th[t].pc = "done" /\ th[t].op = "MessageStatus"
         /\ lastBody[th[t].msgName] # Nil) =>
            th[t].ret = [val |-> lastBody[th[t].msgName], err |-> "none"]

-----------------------------------------------------------------------------
(* C10 *)

\* C10 as claimed: when the send of a message fails in transport and the
\* snapshot has later messages, the pass goes on: the client has not
\* panicked.
C10_PassContinues ==
    \A t \in clients :
        (th[t].err # "" /\ th[t].i < Len(th[t].queueData)) =>
            th[t].pc # "panicked"

-----------------------------------------------------------------------------
(* C11 *)

\* RawExecute is over for the message client t sent, by return or by panic
SendOver(t) == th[t].pc \in {"succ", "panicked"}

\* C11 as claimed: once RawExecute is over for a message whose send failed in
\* transport, the source queue is what it was at the send less its head, the
\* key of the message's name holds what it held at the send, and no dead
\* letter queue other than the source holds more copies of the message.
C11_TransportFailureEffects ==
    \A t \in clients :
        (SendOver(t) /\ th[t].err # "") =>
            LET m == th[t].msg
                p == pre[t]
            IN  /\ <<m>> \o GetQueue(store, th[t].qName) = GetQueue(p, th[t].qName)
                /\ store[m.Name] = p[m.Name]
                /\ \A k \in DeadKeys \ {th[t].qName} :
                     Count(m, GetQueue(store, k)) <= Count(m, GetQueue(p, k))

-----------------------------------------------------------------------------
(* C12 *)

\* C12 as claimed: an AddMessage, DeleteReqMsg, DeleteDeadMsg, ClearReqQueue
\* or ClearDeadQueue call during which a round trip to the store failed has
\* returned an error.
C12_StoreErrorsPropagate ==
    \A t \in clients :
        (/\ th[t].pc = "done" /\ th[t].failed
         /\ th[t].op \in {"AddMessage", "DeleteReqMsg", "DeleteDeadMsg",
                          "ClearReqQueue", "ClearDeadQueue"}) =>
            th[t].ret.err # "none"

-----------------------------------------------------------------------------
(* C13 *)

\* C13 as claimed, its first half: when an AddMessage of client u and an
\* ExecuteQueue pass of client t have both returned, the message u added, if
\* no message of its name was ever answered, is in the request queue.
C13_AppendSurvivesPass ==
    \A u \in clients, t \in clients :
        (/\ u # t
         /\ th[u].pc = "done" /\ th[u].op = "AddMessage" /\ th[u].ret.err = "none"
         /\ th[t].pc = "done" /\ th[t].op = "ExecuteQueue"
         /\ lastBody[th[u].msg.Name] = Nil) =>
            Count(th[u].msg, GetQueue(store, queueName)) >= 1

-----------------------------------------------------------------------------
(* C14 *)

\* C14 as claimed: when two AddMessage calls have both returned without error
\* and nothing but AddMessage has run, the request queue holds the message of
\* each, twice if they added the same message.
C14_NoLostAppend ==
    \A u \in clients, t \in clients :
        (/\ u # t /\ onlyAdds
         /\ th[u].pc = "done" /\ th[u].op = "AddMessage" /\ th[u].ret.err = "none"
         /\ th[t].pc = "done" /\ th[t].op = "AddMessage" /\ th[t].ret.err = "none") =>
            Count(th[u].msg, GetQueue(store, queueName))
                >= Cardinality({x \in {u, t} : th[x].msg = th[u].msg})

-----------------------------------------------------------------------------
(* C15 *)

\* the ExecuteQueue pass of client t has sent its current message and the
\* response is in
Sent(t) ==
    /\ th[t].op = "ExecuteQueue"
    /\ th[t].pc \in {"resp", "hdq", "dead_set", "src_get", "src_set", "succ"}

\* C15 as claimed: while one message in all has been added to the request
\* queue, no two ExecuteQueue passes have both sent it, and the dead letter
\* queues hold one copy of it at most.
C15_AtMostOnce ==
    nAdded = 1 =>
        /\ \A u \in clients, t \in clients : u # t => ~(Sent(u) /\ Sent(t))
        /\ \A m \in InputMsg, k \in DeadKeys : Count(m, GetQueue(store, k)) <= 1

-----------------------------------------------------------------------------
(* C16 *)

\* client t is in an ExecuteQueue pass, or has just finished it, and still
\* holds the snapshot in queueData
InPass(t) ==
    /\ th[t].op = "ExecuteQueue"
    /\ th[t].pc \in {"do", "resp", "hdq", "dead_set", "src_get", "src_set", "succ", "done"}

\* C16 as claimed: a message that another client has added, that is not in
\* the snapshot of the pass of client t and that was never answered, is not
\* the message t sends, and is in the request queue when the pass has ended.
C16_SnapshotOnly ==
    \A u \in clients, t \in clients :
        (/\ u # t /\ InPass(t)
         /\ th[u].pc = "done" /\ th[u].op = "AddMessage" /\ th[u].ret.err = "none"
         /\ Count(th[u].msg, th[t].queueData) = 0
         /\ lastBody[th[u].msg.Name] = Nil) =>
            /\ th[t].msg # th[u].msg
            /\ th[t].pc = "done" => Count(th[u].msg, GetQueue(store, queueName)) >= 1

-----------------------------------------------------------------------------
(* C17 *)

\* C17 as claimed: while a DeleteReqMsg(name) of client u has returned
\* without error, and no message is ever added, no ExecuteQueue pass of
\* another client sends a message of that name.
C17_DeletedNeverSent ==
    [][\A u \in clients, t \in clients :
          (/\ u # t
           /\ th[u].pc = "done" /\ th[u].op = "DeleteReqMsg" /\ th[u].ret.err = "none"
           /\ th[t].op = "ExecuteQueue" /\ th[t].pc = "do"
           /\ th[t].msg.Name = th[u].msgName) =>
              th'[t].pc = "do"]_vars

-----------------------------------------------------------------------------
(* C18 *)

\* C18 as claimed: the two writes of a response body, under the message's
\* Name (MessageResponse) and under its Url+ReqMethod (the end of
\* RawExecute), leave the contents of the request queue and of every dead
\* letter queue as they were.
C18_RecordsApartFromQueues ==
    [][\A t \in clients :
          th[t].pc \in {"resp", "succ"} =>
              \A k \in QueueKeys : GetQueue(store', k) = GetQueue(store, k)]_vars

-----------------------------------------------------------------------------
(* C19 *)

\* C19 as claimed: a DeleteReqMsg(name) that met no store failure and found
\* no entry of that name in the request queue has returned a result that is
\* neither the one of a removal ("none") nor the one of a store error.
C19_DeleteNotFound ==
    \A t \in clients :
        (/\ th[t].pc = "done" /\ th[t].op = "DeleteReqMsg" /\ ~th[t].failed
         /\ Others(GetQueue(pre[t], queueName), th[t].msgName)
                = GetQueue(pre[t], queueName)) =>
            th[t].ret.err \notin {"none", StoreErr("fail")}

-----------------------------------------------------------------------------
(* C20 *)

\* no response body was ever stored under key n: no message named n, and no
\* message whose Url+ReqMethod is n, was ever answered
NeverWritten(n) ==
    /\ lastBody[n] = Nil
    /\ \A m \in AllMsgs : SuccessKey(m) = n => lastBody[m.Name] = Nil

\* C20 as claimed: MessageStatus(name) returns an error when no response was
\* ever stored under that name, and returns the empty string and no error
\* when the latest response to a message of that name had an empty body.
C20_NotFoundVersusEmpty ==
    \A t \in clients :
        (th[t].pc = "done" /\ th[t].op = "MessageStatus") =>
            /\ NeverWritten(th[t].msgName) => th[t].ret.err # "none"
            /\ lastBody[th[t].msgName] = Str("") =>
                   th[t].ret = [val |-> Str(""), err |-> "none"]

-----------------------------------------------------------------------------
(* C21 *)

\* the pass of client t over th[t].qName ends with its next step: the
\* snapshot is about to be read and is empty, or its last message is handled
LastStepOfPass(t) ==
    \/ th[t].pc = "eqn" /\ GetQueue(store, th[t].qName) = <<>>
    \/ PassEnds(t)

-----------------------------------------------------------------------------
(* C22 *)

\* the queues of store s in which message m occurs exactly once, when it
\* occurs in no other queue; {} when it occurs more often or nowhere
OnlyIn(s, m) ==
    {k \in QueueKeys : /\ Count(m, GetQueue(s, k)) = 1
                       /\ \A q \in QueueKeys \ {k} : Count(m, GetQueue(s, q)) = 0}

\* C22 as claimed, at the moment the message is handled: when a message that
\* was once in all queues, in dead letter queue k, is sent by a single-client
\* pass over k and answered with a dead status d, it is once in all queues
\* again, the last entry of queue str(d), whether d = k or not.
C22_RefiledOnce ==
    \A t \in clients :
        (/\ Handled(t) /\ th[t].op = "ExecuteDeadQueue"
         /\ th[t].status \in DeadSet
         /\ OnlyIn(pre[t], th[t].msg) = {th[t].qName}) =>
            LET k == Itoa(th[t].status)
                q == GetQueue(store, k)
            IN  /\ OnlyIn(store, th[t].msg) = {k}
                /\ q # <<>> /\ q[Len(q)] = th[t].msg

-----------------------------------------------------------------------------
(* C23 *)

\* the next step of client t is the read of the source queue for the head
\* removal
AtHeadRemoval(t) ==
    \/ th[t].pc = "src_get"
    \/ th[t].pc = "hdq" /\ ~Find(deadHTTP, th[t].status)

\* C23 as claimed: when the source queue is empty at the head removal, the
\* removal does not fail and computes the empty queue to write back.
C23_HeadRemovalOnEmpty ==
    [][\A t \in clients :
          (/\ AtHeadRemoval(t)
           /\ GetQueue(store, th[t].qName) = <<>>
           /\ th'[t] # th[t]) =>
              th'[t].pc = "src_set" /\ th'[t].tmp = <<>>]_vars

-----------------------------------------------------------------------------
(* C24 *)

\* C24: the write that ends DelMsg(k, name) leaves the contents of queue k as
\* they were when no entry had that name, and leaves contents that a second
\* DelMsg(k, name) would write back unchanged.
C24_DelMsgIdempotent ==
    [][\A t \in clients :
          th[t].pc = "del_set" =>
              LET q  == GetQueue(store, th[t].qName)
                  q2 == GetQueue(store', th[t].qName)
              IN  /\ Others(q, th[t].msgName) = q => q2 = q
                  /\ FilterQueue(q2, th[t].msgName) = q2]_vars

\* DeleteReqMsg("A") has returned a second time: both messages were added,
\* nothing was executed, the queue held MsgB alone and still does
C24_Witness ==
    \E t \in clients :
        /\ th[t].pc = "done" /\ th[t].op = "DeleteReqMsg" /\ th[t].msgName = "A"
        /\ nAdded = 2 /\ nPasses = 0
        /\ GetQueue(pre[t], queueName) = <<MsgB>>
        /\ GetQueue(store, queueName) = <<MsgB>>

-----------------------------------------------------------------------------
(* C25 *)

\* message m has as many copies in the request queue after the step as before
KeptInRequestQueue(m) ==
    Count(m, GetQueue(store', queueName)) >= Count(m, GetQueue(store, queueName))

\* C25 as claimed: with DeleteReqMsg calls and ExecuteQueue passes running
\* side by side, the write that ends a head removal takes no message out of
\* the request queue but the one the pass has just sent, and the write that
\* ends a DeleteReqMsg takes out no message of another name.
C25_OnlySentOrNamedLeave ==
    [][\A t \in clients :
          /\ (th[t].pc = "src_set" /\ th[t].op = "ExecuteQueue" /\ th'[t] # th[t]) =>
                \A m \in InputMsg \ {th[t].msg} : KeptInRequestQueue(m)
          /\ (th[t].pc = "del_set" /\ th[t].op = "DeleteReqMsg" /\ th'[t] # th[t]) =>
                \A m \in InputMsg : m.Name # th[t].msgName => KeptInRequestQueue(m)]_vars

-----------------------------------------------------------------------------
(* C26 *)

\* an ExecuteQueue or ExecuteDeadQueue call of client t is under way
Running(t) ==
    /\ th[t].op \in {"ExecuteQueue", "ExecuteDeadQueue"}
    /\ th[t].pc \notin {"idle", "done", "panicked"}

\* C26: every ExecuteQueue and ExecuteDeadQueue call comes to an end when
\* its sends and store calls return, and the sends of each pass are counted
\* by an index into the snapshot the pass read: the snapshot is replaced
\* only when a pass begins, every send is for the next entry of it, and the
\* index never goes past its length, also when the messages are filed back
\* into the queue under execution.
C26_PassTerminates ==
    /\ [][\A t \in clients :
            /\ th[t].pc # "eqn" => th'[t].queueData = th[t].queueData \/ th'[t].pc = "idle"
            /\ (th'[t].pc = "do" /\ th[t].pc # "do") =>
                  /\ th'[t].i = (IF th[t].pc = "eqn" THEN 1 ELSE th[t].i + 1)
                  /\ th'[t].i <= Len(th'[t].queueData)
                  /\ th'[t].msg = th'[t].queueData[th'[t].i]]_vars
    /\ (\E t \in clients : Running(t)) ~> (\A t \in clients : ~Running(t))

\* an ExecuteDeadQueue call is over whose pass filed every message of a
\* snapshot of two back into the queue it was executing
C26_Witness ==
    \E t \in clients :
        /\ th[t].op = "ExecuteDeadQueue" /\ th[t].pc = "done"
        /\ Len(th[t].queueData) = 2
        /\ th[t].refiled = 2
        /\ Len(GetQueue(store, th[t].qName)) = 2

-----------------------------------------------------------------------------
(* C27 *)

\* client t is between the response to the message it sent and the return
\* of HandleDeadQueue for it
Processing(t) ==
    /\ th[t].op \in {"ExecuteQueue", "ExecuteDeadQueue"}
    /\ th[t].pc \in {"resp", "hdq", "dead_set", "src_get", "src_set", "succ"}
    /\ th[t].err = ""

\* the queues of store s that hold message m
QueuesOf(s, m) == {k \in QueueKeys : Count(m, GetQueue(s, k)) >= 1}

\* C27 as claimed: in a single-client pass without store failures, a message
\* answered with a dead status is in at least one queue, the request queue
\* or a dead letter queue, in every state from its response to the return of
\* HandleDeadQueue.
C27_NeverInNoQueue ==
    \A t \in clients :
        (Processing(t) /\ th[t].status \in DeadSet) => QueuesOf(store, th[t].msg) # {}

-----------------------------------------------------------------------------
(* C28 *)

\* C28 as claimed: when the write that appends a message answered with a
\* dead status to its dead letter queue has failed, the message is still in
\* the queue it was executed from once HandleDeadQueue has returned.
C28_FailedAppendKeepsMessage ==
    \A t \in clients :
        (Handled(t) /\ th[t].status \in DeadSet /\ th[t].failed) =>
            Count(th[t].msg, GetQueue(store, th[t].qName)) >= 1

-----------------------------------------------------------------------------
(* C29 *)

\* sequence p is the beginning of sequence q
IsPrefix(p, q) == Len(p) <= Len(q) /\ \A i \in 1..Len(p) : q[i] = p[i]

\* C29 as claimed: when an AddMessage call has returned, whether or not its
\* read or its write of the store failed, the request queue begins with the
\* messages it held before the call, in their order.
C29_AddKeepsQueued ==
    \A t \in clients :
        (th[t].pc = "done" /\ th[t].op = "AddMessage") =>
            IsPrefix(GetQueue(pre[t], queueName), GetQueue(store, queueName))

-----------------------------------------------------------------------------
(* C30 *)

\* the place of a dead status code in the configured order
Pos(code) == CHOOSE e \in 1..Len(deadHTTP) : deadHTTP[e] = code

\* in call number n, an ExecuteDeadQueue call, message m has just been filed
\* into the dead letter queue of the code at place e
RefiledInto(m, n, e) ==
    \E t \in clients :
        /\ th[t].op = "ExecuteDeadQueue" /\ nPasses = n
        /\ th[t].pc = "src_get" /\ th[t].msg = m
        /\ th[t].status \in DeadSet /\ Pos(th[t].status) = e

\* the pass of call n is at a place before e
Before(n, e) == \E t \in clients : nPasses = n /\ th[t].d < e

\* the pass of call n is at place e or after it, and its snapshot holds one
\* copy of m
NotBefore(m, n, e) ==
    \E t \in clients : nPasses = n /\ th[t].d >= e /\ Count(m, th[t].queueData) = 1

\* in call number n, an ExecuteDeadQueue call, RawExecute is entered for
\* message m in the pass over the queue of the code at place e
SendOf(m, n, e) ==
    \E t \in clients :
        /\ th[t].op = "ExecuteDeadQueue" /\ nPasses = n
        /\ th[t].pc = "do" /\ th[t].msg = m /\ th[t].d = e

\* C30 as claimed: within one ExecuteDeadQueue call, a message filed into
\* the queue of a code that comes later in the configured order is sent
\* again by the pass of that call over that queue, and a message filed into
\* the queue under execution or into the queue of an earlier code is not
\* sent from that queue in the rest of the call.
C30_ResentOnlyLater ==
    \A m \in AllMsgs, n \in 1..MaxPasses, e \in 1..2 :
        /\ (RefiledInto(m, n, e) /\ Before(n, e)) ~> SendOf(m, n, e)
        /\ []((RefiledInto(m, n, e) /\ NotBefore(m, n, e)) => []~SendOf(m, n, e))

-----------------------------------------------------------------------------
(* C31 *)

\* C31 as claimed: in the earliest variant, Find(c.deadHTTP, status) is true
\* exactly when status is one of the configured dead status codes, and the
\* step of HandleDeadQueue writes the message under the key str(status)
\* exactly in that case.
C31_EarliestFindIsMembership ==
    [][\A t \in clients :
          (th[t].pc = "hdq_e" /\ th'[t] # th[t]) =>
              /\ EarliestFind(deadHTTP, th[t].status) <=> th[t].status \in DeadSet
              /\ (\E k \in DeadKeys : k = Itoa(th[t].status) /\ store'[k] = Raw(th[t].msg))
                    <=> th[t].status \in DeadSet]_vars

====
